---- MODULE Spec2Model ----
(***************************************************************************)
(* Configuration resolution of mabel: Config::load (src/src/config.rs)     *)
(* and its helpers, as a state machine.  One action per ordered step of    *)
(* load; the inputs a step reads (CLI fields, environment variables) are   *)
(* drawn when the step reads them and kept in `inp` until the next step.   *)
(*                                                                         *)
(* Strings that the code only compares or copies are TLA+ strings;         *)
(* strings that the code parses (numbers, URLs) are sequences of           *)
(* characters or tokens, and paths are sequences of components, so that    *)
(* parsing and expansion are computed, not assumed.                        *)
(***************************************************************************)
EXTENDS Integers, Sequences, FiniteSets, TLC

\* Deepest chain of directories below the root that a vault path names.
MaxDepth == 2

(***************************************************************************)
(* Option<T>                                                               *)
(***************************************************************************)
None == [some |-> FALSE]
Some(x) == [some |-> TRUE, v |-> x]

\* `a.or_else(|| b)`: the first of the two that is present.
or_else_wrong(a, b) == IF b.some THEN b ELSE a
or_else(a, b) == IF a.some THEN a ELSE b

\* `a.unwrap_or_else(|| d)`
unwrap_or(a, d) == IF a.some THEN a.v ELSE d

(***************************************************************************)
(* Paths: a path is the sequence of its components; "/" as first component *)
(* is the root, "~" the home shorthand, "." the current directory.  The    *)
(* empty sequence is the empty path.                                       *)
(***************************************************************************)
HomeDir == <<"/", "home", "u">>
TildeVault == <<"~", "vault">>
Nested(k) == <<"/">> \o [i \in 1..k |-> "v"]
RelVault == <<"notes">>
EmptyPath == <<>>
AbsCache == <<"/", "var", "cache">>
TildeCache == <<"~", "c">>
RelCache == <<"cache">>
ProbeName == ".mabel_write_check"
DefaultTemplate == <<"templates", "paper_note.md.tera">>
TildeTemplate == <<"~", "t.tera">>

is_absolute(p) == Len(p) > 0 /\ p[1] = "/"

\* shellexpand::tilde: a leading "~" component becomes the home directory
\* when the home directory is known, and the path is unchanged otherwise.
expand_path(p, home) ==
    IF Len(p) > 0 /\ p[1] = "~" /\ home.some THEN home.v \o Tail(p) ELSE p

\* dirs::home_dir().unwrap_or(".").join(".mabel")
default_cache_dir(home) == unwrap_or(home, <<".">>) \o <<".mabel">>

(***************************************************************************)
(* Filesystem: the directories and regular files that exist, the           *)
(* directories that deny creating and removing entries (ro) and those      *)
(* that allow creating but deny removing (ao, append-only).  Keys are      *)
(* paths without "." components; a relative path hangs under <<>>, the     *)
(* current directory.                                                      *)
(***************************************************************************)
IsNotDot(c) == c # "."
Canon(p) == SelectSeq(p, IsNotDot)
Parent(p) == SubSeq(p, 1, Len(p) - 1)

\* Path::exists: the empty path never exists.
path_exists(f, p) == Len(p) > 0 /\ Canon(p) \in (f.dirs \cup f.files)

\* mkdir(2) of one directory.
Mkdir(f, k) ==
    IF k \in (f.dirs \cup f.files) THEN [ok |-> FALSE, notfound |-> FALSE, fs |-> f]
    ELSE IF Parent(k) \notin (f.dirs \cup f.files)
         THEN [ok |-> FALSE, notfound |-> TRUE, fs |-> f]
    ELSE IF Parent(k) \in f.files \/ Parent(k) \in f.ro
         THEN [ok |-> FALSE, notfound |-> FALSE, fs |-> f]
    ELSE [ok |-> TRUE, notfound |-> FALSE,
          fs |-> [f EXCEPT !.dirs = @ \cup {k}]]

\* std::fs::create_dir_all: mkdir, and on NotFound the parents first.
RECURSIVE create_dir_all(_, _)
create_dir_all(f, k) ==
    IF Len(k) = 0 \/ k = <<"/">> THEN [ok |-> TRUE, fs |-> f]
    ELSE LET first == Mkdir(f, k) IN
         IF first.ok THEN [ok |-> TRUE, fs |-> first.fs]
         ELSE IF ~first.notfound THEN [ok |-> k \in f.dirs, fs |-> f]
         ELSE LET up == create_dir_all(f, Parent(k)) IN
              IF ~up.ok THEN up
              ELSE LET again == Mkdir(up.fs, k) IN
                   [ok |-> again.ok \/ k \in up.fs.dirs, fs |-> again.fs]

ensure_dir_exists_nocreate(f, dir) == [ok |-> TRUE, fs |-> f]
ensure_dir_exists(f, dir) ==
    IF path_exists(f, dir) THEN [ok |-> TRUE, fs |-> f]
    ELSE create_dir_all(f, Canon(dir))

\* dir.join(".mabel_write_check")
ProbePath(dir) == Canon(dir) \o <<ProbeName>>

\* ensure_writable: open(create, write) the probe, write "ok", remove it and
\* ignore whether the removal worked.  writeOk: whether write_all succeeds.
ensure_writable_no_remove(f, dir, writeOk) ==
    LET test == ProbePath(dir)
        opens == \/ test \in f.files
                 \/ (test \notin f.dirs /\ Canon(dir) \in f.dirs /\ Canon(dir) \notin f.ro)
        made == opens /\ test \notin f.files
        f1 == IF made THEN [f EXCEPT !.files = @ \cup {test}] ELSE f
    IN  IF ~opens THEN [ok |-> FALSE, created |-> FALSE, fs |-> f]
        ELSE [ok |-> writeOk, created |-> made, fs |-> f1]
ensure_writable(f, dir, writeOk) ==
    LET test == ProbePath(dir)
        d == Canon(dir)
        opens == \/ test \in f.files
                 \/ /\ test \notin f.dirs
                    /\ d \in f.dirs
                    /\ d \notin f.ro
        made == opens /\ test \notin f.files
        f1 == IF made THEN [f EXCEPT !.files = @ \cup {test}] ELSE f
        f2 == IF d \in (f.ro \cup f.ao) THEN f1
              ELSE [f1 EXCEPT !.files = @ \ {test}]
    IN  IF ~opens THEN [ok |-> FALSE, created |-> FALSE, fs |-> f]
        ELSE IF ~writeOk THEN [ok |-> FALSE, created |-> made, fs |-> f1]
        ELSE [ok |-> TRUE, created |-> made, fs |-> f2]

(***************************************************************************)
(* Environment values                                                      *)
(***************************************************************************)
\* env_bool: only these five spellings are true; unset gives the default.
env_bool(v, default) ==
    IF v.some THEN v.v \in {"1", "true", "TRUE", "yes", "on"} ELSE default

Digit == {"0", "1", "2", "3", "4", "5", "6", "7", "8", "9"}
DigitVal(c) ==
    CASE c = "0" -> 0 [] c = "1" -> 1 [] c = "2" -> 2 [] c = "3" -> 3
      [] c = "4" -> 4 [] c = "5" -> 5 [] c = "6" -> 6 [] c = "7" -> 7
      [] c = "8" -> 8 [] c = "9" -> 9

AllDigits(s) == \A i \in 1..Len(s) : s[i] \in Digit

RECURSIVE StripZeros(_)
StripZeros(s) == IF Len(s) > 1 /\ s[1] = "0" THEN StripZeros(Tail(s)) ELSE s

\* a <= b for digit strings without leading zeros
RECURSIVE LexLeq(_, _)
LexLeq(a, b) ==
    IF Len(a) = 0 THEN TRUE
    ELSE IF DigitVal(a[1]) # DigitVal(b[1]) THEN DigitVal(a[1]) < DigitVal(b[1])
    ELSE LexLeq(Tail(a), Tail(b))
DigitsLeq(a, b) == Len(a) < Len(b) \/ (Len(a) = Len(b) /\ LexLeq(a, b))

RECURSIVE DigitsValue(_, _)
DigitsValue(s, acc) ==
    IF Len(s) = 0 THEN acc ELSE DigitsValue(Tail(s), 10 * acc + DigitVal(s[1]))

U32Max == <<"4", "2", "9", "4", "9", "6", "7", "2", "9", "5">>
U64Max == <<"1", "8", "4", "4", "6", "7", "4", "4", "0", "7",
            "3", "7", "0", "9", "5", "5", "1", "6", "1", "5">>

\* <unsigned>::from_str: an optional "+", then one or more digits and nothing
\* else; a value above the type's maximum is an error.
ParseUnsigned(s, max) ==
    LET body == IF Len(s) > 0 /\ s[1] = "+" THEN Tail(s) ELSE s IN
    IF Len(body) = 0 \/ ~AllDigits(body) THEN None
    ELSE IF ~DigitsLeq(StripZeros(body), max) THEN None
    ELSE Some(DigitsValue(body, 0))

\* env::var(key).ok().and_then(|v| v.parse().ok()).unwrap_or(default)
env_u32_zero(v, default) ==
    IF v.some THEN unwrap_or(ParseUnsigned(v.v, U32Max), 0) ELSE default
env_u32(v, default) ==
    IF v.some THEN unwrap_or(ParseUnsigned(v.v, U32Max), default) ELSE default
env_u64(v, default) ==
    IF v.some THEN unwrap_or(ParseUnsigned(v.v, U64Max), default) ELSE default

\* f32::from_str on decimal literals: an optional sign, digits with at most
\* one ".", at least one digit.  The value is mant / 10^scale, trailing
\* zeros of the fraction dropped.
RECURSIVE DropTrailingZeros(_)
DropTrailingZeros(s) ==
    IF Len(s) > 0 /\ s[Len(s)] = "0" THEN DropTrailingZeros(SubSeq(s, 1, Len(s) - 1))
    ELSE s
IsNotDotChar(c) == c # "."
ParseF32(s) ==
    LET signed == Len(s) > 0 /\ s[1] \in {"+", "-"}
        neg == Len(s) > 0 /\ s[1] = "-"
        body == IF signed THEN Tail(s) ELSE s
        dots == {i \in 1..Len(body) : body[i] = "."}
        dot == IF dots = {} THEN Len(body) + 1 ELSE CHOOSE i \in dots : TRUE
        int == SubSeq(body, 1, dot - 1)
        frac == DropTrailingZeros(SubSeq(body, dot + 1, Len(body)))
        digits == SelectSeq(body, IsNotDotChar)
    IN  IF Cardinality(dots) > 1 \/ Len(digits) = 0 \/ ~AllDigits(digits) THEN None
        ELSE Some([neg |-> neg /\ DigitsValue(int \o frac, 0) # 0,
                   mant |-> DigitsValue(int \o frac, 0),
                   scale |-> Len(frac)])
env_f32(v, default) ==
    IF v.some THEN unwrap_or(ParseF32(v.v), default) ELSE default

DefaultMaxTokens == 800
DefaultTemperature == [neg |-> FALSE, mant |-> 2, scale |-> 1]
DefaultTimeoutSecs == 20
DefaultRetries == 2
DefaultRatePerMin == 30

(***************************************************************************)
(* URLs: a URL string is the sequence of its tokens, scheme, "://", host,  *)
(* then an optional ":port" and an optional path.                          *)
(***************************************************************************)
Lower(t) ==
    CASE t = "HTTP" -> "http"
      [] t = "Grobid.Local" -> "grobid.local"
      [] OTHER -> t
SpecialSchemes == {"http", "https"}

\* Url::parse, on strings of the shapes above: a string without a scheme is
\* a relative URL without a base, a special scheme needs a host; scheme and
\* host are lower-cased and an empty path becomes "/".
UrlParse(s) ==
    IF Len(s) < 2 \/ s[2] # "://" \/ Lower(s[1]) \notin SpecialSchemes
    THEN [ok |-> FALSE, cause |-> "RelativeUrlWithoutBase"]
    ELSE IF Len(s) < 3 \/ s[3] = "" THEN [ok |-> FALSE, cause |-> "EmptyHost"]
    ELSE [ok |-> TRUE,
          url |-> [scheme |-> Lower(s[1]), host |-> Lower(s[3]),
                   port |-> IF Len(s) >= 4 /\ s[4] # "/" THEN s[4] ELSE "",
                   path |-> "/"]]

DefaultOllamaHost == <<"http", "://", "localhost", ":11434">>
CliHost == <<"HTTP", "://", "Grobid.Local", ":11500">>
EnvHost == <<"http", "://", "ollama.lan">>
CliGrobid == <<"https", "://", "Grobid.Local", ":8070">>
EnvGrobid == <<"http", "://", "grobid.lan", ":8070">>
NotAUrl == <<"not a url">>
NoHostUrl == <<"http", "://">>

(***************************************************************************)
(* MabelError                                                              *)
(***************************************************************************)
MissingEnv(key) == [kind |-> "MissingEnv", key |-> key]
IoError(path) == [kind |-> "Io", path |-> path]
VaultNotWritable(path) == [kind |-> "VaultNotWritable", path |-> path]
UrlError(cause) == [kind |-> "Url", cause |-> cause]

Ok(x) == [ok |-> TRUE, v |-> x]
Err(e) == [ok |-> FALSE, err |-> e]

(***************************************************************************)
(* The steps of Config::load as functions of what each reads               *)
(***************************************************************************)
\* Vault path: CLI, else OBSIDIAN_VAULT_PATH, else MissingEnv; then expanded.
resolve_vault_path_defaulted(cli, env, home) ==
    Ok(expand_path(unwrap_or(or_else(cli, env), <<".">>), home))
resolve_vault_path(cli, env, home) ==
    LET r == or_else(cli, env) IN
    IF ~r.some THEN Err(MissingEnv("OBSIDIAN_VAULT_PATH"))
    ELSE Ok(expand_path(r.v, home))

resolve_vault_subdir(cli, env) == unwrap_or(or_else(cli, env), "Papers")

\* cli.flag || env_bool(KEY, false)
resolve_flag(cli, env) == cli \/ env_bool(env, FALSE)

resolve_cache_dir(cli, env, home) ==
    expand_path(unwrap_or(or_else(cli, env), default_cache_dir(home)), home)

\* LLM backend selection.  in: the CLI fields and environment variables the
\* two branches read.
OllamaModel(in) ==
    unwrap_or(or_else(in.cli_model, in.env_ollama_model), "llama3:8b-instruct")
OpenAiModel(in) ==
    unwrap_or(or_else(in.cli_model, in.env_openai_model), "gpt-4o-mini")

\* The branch `if cli.ollama`: the host is parsed, `?` returns its error.
OllamaBackend_default_on_bad_host(in) ==
    LET host == unwrap_or(or_else(in.cli_host, in.env_host), DefaultOllamaHost)
        u == IF UrlParse(host).ok THEN UrlParse(host) ELSE UrlParse(DefaultOllamaHost)
    IN  Ok([variant |-> "Ollama", host |-> u.url, model |-> OllamaModel(in),
            max_tokens |-> env_u32(in.env_max_tokens, DefaultMaxTokens),
            temperature |-> env_f32(in.env_temperature, DefaultTemperature)])
OllamaBackend(in) ==
    LET host == unwrap_or(or_else(in.cli_host, in.env_host), DefaultOllamaHost)
        u == UrlParse(host)
    IN  IF ~u.ok THEN Err(UrlError(u.cause))
        ELSE Ok([variant |-> "Ollama", host |-> u.url, model |-> OllamaModel(in),
                 max_tokens |-> env_u32(in.env_max_tokens, DefaultMaxTokens),
                 temperature |-> env_f32(in.env_temperature, DefaultTemperature)])

\* The else branch: the key is required, `?` returns MissingEnv.
OpenAiBackend(in) ==
    LET api_key == or_else(in.cli_key, in.env_key) IN
    IF ~api_key.some THEN Err(MissingEnv("OPENAI_API_KEY"))
    ELSE Ok([variant |-> "OpenAi", api_key |-> api_key.v, model |-> OpenAiModel(in),
             max_tokens |-> env_u32(in.env_max_tokens, DefaultMaxTokens),
             temperature |-> env_f32(in.env_temperature, DefaultTemperature)])

select_backend_key_first(in) ==
    IF ~or_else(in.cli_key, in.env_key).some THEN Err(MissingEnv("OPENAI_API_KEY"))
    ELSE IF in.ollama THEN OllamaBackend(in) ELSE OpenAiBackend(in)
select_backend(in) == IF in.ollama THEN OllamaBackend(in) ELSE OpenAiBackend(in)

\* cli.grobid_url.or_else(GROBID_URL).map(Url::parse).transpose()?
resolve_grobid_url_lenient(cli, env) ==
    LET r == or_else(cli, env) IN
    IF r.some /\ UrlParse(r.v).ok THEN Ok(Some(UrlParse(r.v).url)) ELSE Ok(None)
resolve_grobid_url(cli, env) ==
    LET r == or_else(cli, env) IN
    IF ~r.some THEN Ok(None)
    ELSE LET u == UrlParse(r.v) IN
         IF u.ok THEN Ok(Some(u.url)) ELSE Err(UrlError(u.cause))

resolve_template_path(cli, home) == expand_path(unwrap_or(cli, DefaultTemplate), home)

resolve_mode(cli) == IF cli.some /\ cli.v = "study" THEN "Study" ELSE "Concise"

(***************************************************************************)
(* State                                                                   *)
(***************************************************************************)
VARIABLES
    pc,     \* the step of load that runs next, "returned" after the return
    fs,     \* the filesystem
    fs0,    \* the filesystem when load was called
    home,   \* dirs::home_dir()
    slice,  \* which group of inputs the environment varies in this run
    inp,    \* the CLI fields and environment variables the last step read
    loc,    \* the local variables of load bound so far
    ret,    \* None while load runs, then Some(Ok(config)) or Some(Err(e))
    steps   \* the steps executed so far, in order

vars == <<pc, fs, fs0, home, slice, inp, loc, ret, steps>>

StepOrder == <<"dotenv", "vault_path", "vault_dir", "vault_writable",
               "vault_fields", "cache", "overwrite", "backend", "grobid",
               "timeout", "retries", "rate", "rendering", "build">>

Fields == {"vault_path", "vault_subdir", "copy_pdf_into_vault", "cache_dir",
           "overwrite_note", "llm", "grobid_url", "http_timeout",
           "http_retries", "rate_limit_per_min", "template_path", "mode"}

(***************************************************************************)
(* Inputs.  The "paths" slice varies the filesystem, the home directory    *)
(* and every input that can make load fail; the "fields" slice varies the  *)
(* plain fields; the "numeric" slice varies the numeric knobs.  Inputs     *)
(* outside the slice are fixed to values with which load succeeds.         *)
(***************************************************************************)
Slices == {"paths", "fields", "numeric"}

BaseDirs == {<<>>, <<"/">>, <<"/", "home">>, HomeDir}
MkFs(d, f, ro, ao) == [dirs |-> BaseDirs \cup d, files |-> f, ro |-> ro, ao |-> ao]
HomeVault == HomeDir \o <<"vault">>
PlainFs == MkFs({}, {}, {}, {})
FsInits ==
    { PlainFs,
      MkFs({}, {}, {<<"/">>}, {}),                       \* read-only root
      MkFs({}, {}, {<<>>}, {}),                          \* read-only cwd
      MkFs({}, {}, {HomeDir}, {}),                       \* read-only home
      MkFs({HomeVault}, {}, {HomeVault}, {}),            \* read-only vault
      MkFs({HomeVault}, {}, {}, {HomeVault}),            \* append-only vault
      MkFs({}, {Nested(1)}, {}, {}),                     \* a file where the vault goes
      MkFs({Nested(1)}, {ProbePath(Nested(1))}, {Nested(1)}, {}),
      MkFs({Nested(1)}, {ProbePath(Nested(1))}, {}, {}), \* a probe left behind
      MkFs({<<"/", "var">>}, {AbsCache}, {}, {}) }       \* a file where the cache goes

Opt(S) == {None} \cup {Some(x) : x \in S}
In(sl, S, fixed) == IF slice = sl THEN S ELSE {fixed}

CliVaultDom == In("paths", Opt({TildeVault, RelVault}), Some(TildeVault))
EnvVaultDom == In("paths", Opt({EmptyPath} \cup {Nested(k) : k \in 1..MaxDepth}), None)
CliSubdirDom == In("fields", Opt({"Inbox"}), None)
EnvSubdirDom == In("fields", Opt({"Reading"}), None)
CliFlagDom == In("fields", BOOLEAN, FALSE)
EnvBoolDom == In("fields", Opt({"1", "true", "TRUE", "yes", "on", "True", "0", ""}), None)
CliCacheDom == In("paths", Opt({AbsCache}), None)
EnvCacheDom == In("paths", Opt({TildeCache, RelCache}), None)
CliHostDom == In("paths", Opt({CliHost, NotAUrl}), None)
EnvHostDom == In("paths", Opt({EnvHost, NoHostUrl}), None)
CliKeyDom == In("paths", Opt({"", "sk-cli"}), Some("sk-cli"))
EnvKeyDom == In("paths", Opt({"", "sk-env"}), None)
CliModelDom == In("fields", Opt({"m-cli"}), None)
EnvOllamaModelDom == In("fields", Opt({"m-ollama"}), None)
EnvOpenAiModelDom == In("fields", Opt({"m-openai"}), None)
CliGrobidDom == In("paths", Opt({CliGrobid, NoHostUrl}), None)
EnvGrobidDom == In("paths", Opt({EnvGrobid, NotAUrl}), None)
U32Samples ==
    { <<"1", "0", "0">>, <<"+", "5">>, <<"0", "0", "7">>, <<>>, <<"a", "b", "c">>,
      <<"-", "1">>, <<" ", "7">>, <<"1", "e", "3">>, <<"+">>,
      <<"4", "2", "9", "4", "9", "6", "7", "2", "9", "6">> }
F32Samples ==
    { <<"0", ".", "7">>, <<"1">>, <<".", "5">>, <<"0", ".", "7", "0">>, <<>>,
      <<"h", "o", "t">>, <<"0", ",", "7">>, <<".">>, <<"1", ".", "2", ".", "3">> }
U64Samples ==
    { <<"4", "5">>, <<"+", "5">>, <<>>, <<"2", "0", "s">>, <<"-", "1">>, <<"4", ".", "5">>,
      <<"1", "8", "4", "4", "6", "7", "4", "4", "0", "7",
        "3", "7", "0", "9", "5", "5", "1", "6", "1", "6">> }
EnvU32Dom == In("numeric", Opt(U32Samples), None)
EnvU64Dom == In("numeric", Opt(U64Samples), None)
EnvF32Dom == In("numeric", Opt(F32Samples), None)
CliTemplateDom == In("fields", Opt({TildeTemplate}), None)
CliModeDom == In("fields", Opt({"study", "Study", "STUDY", "", "concise"}), None)

(***************************************************************************)
(* Init and the steps of load                                              *)
(***************************************************************************)
Init ==
    /\ slice \in Slices
    /\ fs \in (IF slice = "paths" THEN FsInits ELSE {PlainFs})
    /\ home \in (IF slice = "paths" THEN {Some(HomeDir), None} ELSE {Some(HomeDir)})
    /\ fs0 = fs
    /\ pc = "dotenv"
    /\ inp = [step |-> "none"]
    /\ loc = [f \in Fields |-> None]
    /\ ret = None
    /\ steps = <<>>

Bind(f, x) == [loc EXCEPT ![f] = Some(x)]

\* The step at pc ran and load goes on with step `next`.
Goes(next) ==
    /\ pc' = next
    /\ steps' = Append(steps, pc)
    /\ ret' = None
    /\ UNCHANGED <<fs0, home, slice>>

\* The step at pc ran and load returned error e from it (`?`).
Fails(e) ==
    /\ pc' = "returned"
    /\ steps' = Append(steps, pc)
    /\ ret' = Some(Err(e))
    /\ UNCHANGED <<fs0, home, slice>>

\* dotenvy::dotenv(), its result ignored: the environment read below is the
\* one after this call.
LoadDotenv ==
    /\ pc = "dotenv"
    /\ inp' = [step |-> "dotenv"]
    /\ Goes("vault_path")
    /\ UNCHANGED <<fs, loc>>

ResolveVaultPath ==
    /\ pc = "vault_path"
    /\ \E cli \in CliVaultDom, env \in EnvVaultDom :
        LET r == resolve_vault_path(cli, env, home) IN
        /\ inp' = [step |-> "vault_path", cli |-> cli, env |-> env]
        /\ IF r.ok THEN loc' = Bind("vault_path", r.v) /\ Goes("vault_dir")
           ELSE loc' = loc /\ Fails(r.err)
    /\ UNCHANGED fs

EnsureVaultDir ==
    /\ pc = "vault_dir"
    /\ LET r == ensure_dir_exists(fs, loc.vault_path.v) IN
        /\ fs' = r.fs
        /\ IF r.ok THEN Goes("vault_writable") ELSE Fails(IoError(loc.vault_path.v))
    /\ inp' = [step |-> "vault_dir"]
    /\ UNCHANGED loc

EnsureVaultWritable ==
    /\ pc = "vault_writable"
    /\ \E writeOk \in BOOLEAN :
        LET r == ensure_writable(fs, loc.vault_path.v, writeOk) IN
        /\ fs' = r.fs
        /\ inp' = [step |-> "vault_writable", writeOk |-> writeOk,
                   created |-> r.created, before |-> fs]
        /\ IF r.ok THEN Goes("vault_fields")
           ELSE Fails(VaultNotWritable(loc.vault_path.v))
    /\ UNCHANGED loc

ResolveVaultFields ==
    /\ pc = "vault_fields"
    /\ \E cli_subdir \in CliSubdirDom, env_subdir \in EnvSubdirDom,
          cli_copy \in CliFlagDom, env_copy \in EnvBoolDom :
        /\ inp' = [step |-> "vault_fields", cli_subdir |-> cli_subdir,
                   env_subdir |-> env_subdir, cli_copy |-> cli_copy,
                   env_copy |-> env_copy]
        /\ loc' = [loc EXCEPT
                     !.vault_subdir = Some(resolve_vault_subdir(cli_subdir, env_subdir)),
                     !.copy_pdf_into_vault = Some(resolve_flag(cli_copy, env_copy))]
    /\ Goes("cache")
    /\ UNCHANGED fs

ResolveCacheDir ==
    /\ pc = "cache"
    /\ \E cli \in CliCacheDom, env \in EnvCacheDom :
        LET dir == resolve_cache_dir(cli, env, home)
            r == ensure_dir_exists(fs, dir)
        IN  /\ inp' = [step |-> "cache", cli |-> cli, env |-> env]
            /\ loc' = Bind("cache_dir", dir)
            /\ fs' = r.fs
            /\ IF r.ok THEN Goes("overwrite") ELSE Fails(IoError(dir))

ResolveOverwrite ==
    /\ pc = "overwrite"
    /\ \E cli \in CliFlagDom, env \in EnvBoolDom :
        /\ inp' = [step |-> "overwrite", cli |-> cli, env |-> env]
        /\ loc' = Bind("overwrite_note", resolve_flag(cli, env))
    /\ Goes("backend")
    /\ UNCHANGED fs

SelectBackend ==
    /\ pc = "backend"
    /\ \E ollama \in BOOLEAN, cli_host \in CliHostDom, env_host \in EnvHostDom,
          cli_key \in CliKeyDom, env_key \in EnvKeyDom, cli_model \in CliModelDom,
          env_ollama_model \in EnvOllamaModelDom,
          env_openai_model \in EnvOpenAiModelDom,
          env_max_tokens \in EnvU32Dom, env_temperature \in EnvF32Dom :
        LET in == [step |-> "backend", ollama |-> ollama, cli_host |-> cli_host,
                   env_host |-> env_host, cli_key |-> cli_key, env_key |-> env_key,
                   cli_model |-> cli_model, env_ollama_model |-> env_ollama_model,
                   env_openai_model |-> env_openai_model,
                   env_max_tokens |-> env_max_tokens,
                   env_temperature |-> env_temperature]
            r == select_backend(in)
        IN  /\ inp' = in
            /\ IF r.ok THEN loc' = Bind("llm", r.v) /\ Goes("grobid")
               ELSE loc' = loc /\ Fails(r.err)
    /\ UNCHANGED fs

ResolveGrobid ==
    /\ pc = "grobid"
    /\ \E cli \in CliGrobidDom, env \in EnvGrobidDom :
        LET r == resolve_grobid_url(cli, env) IN
        /\ inp' = [step |-> "grobid", cli |-> cli, env |-> env]
        /\ IF r.ok THEN loc' = Bind("grobid_url", r.v) /\ Goes("timeout")
           ELSE loc' = loc /\ Fails(r.err)
    /\ UNCHANGED fs

ResolveTimeout ==
    /\ pc = "timeout"
    /\ \E env \in EnvU64Dom :
        /\ inp' = [step |-> "timeout", env |-> env]
        /\ loc' = Bind("http_timeout", env_u64(env, DefaultTimeoutSecs))
    /\ Goes("retries")
    /\ UNCHANGED fs

ResolveRetries ==
    /\ pc = "retries"
    /\ \E env \in EnvU32Dom :
        /\ inp' = [step |-> "retries", env |-> env]
        /\ loc' = Bind("http_retries", env_u32(env, DefaultRetries))
    /\ Goes("rate")
    /\ UNCHANGED fs

ResolveRate ==
    /\ pc = "rate"
    /\ \E env \in EnvU32Dom :
        /\ inp' = [step |-> "rate", env |-> env]
        /\ loc' = Bind("rate_limit_per_min", env_u32(env, DefaultRatePerMin))
    /\ Goes("rendering")
    /\ UNCHANGED fs

ResolveRendering ==
    /\ pc = "rendering"
    /\ \E cli_template \in CliTemplateDom, cli_mode \in CliModeDom :
        /\ inp' = [step |-> "rendering", cli_template |-> cli_template,
                   cli_mode |-> cli_mode]
        /\ loc' = [loc EXCEPT
                     !.template_path = Some(resolve_template_path(cli_template, home)),
                     !.mode = Some(resolve_mode(cli_mode))]
    /\ Goes("build")
    /\ UNCHANGED fs

\* Ok(Self { .. })
Build ==
    /\ pc = "build"
    /\ pc' = "returned"
    /\ steps' = Append(steps, pc)
    /\ ret' = Some(Ok([f \in Fields |-> loc[f].v]))
    /\ inp' = [step |-> "build"]
    /\ UNCHANGED <<fs, fs0, home, slice, loc>>

Next ==
    \/ LoadDotenv
    \/ ResolveVaultPath
    \/ EnsureVaultDir
    \/ EnsureVaultWritable
    \/ ResolveVaultFields
    \/ ResolveCacheDir
    \/ ResolveOverwrite
    \/ SelectBackend
    \/ ResolveGrobid
    \/ ResolveTimeout
    \/ ResolveRetries
    \/ ResolveRate
    \/ ResolveRendering
    \/ Build

Spec == Init /\ [][Next]_vars

(***************************************************************************)
(* Properties                                                              *)
(***************************************************************************)
Returned == ret.some
ReturnedOk == ret.some /\ ret.v.ok
ReturnedErr == ret.some /\ ~ret.v.ok
After(s) == inp.step = s
\* What the step that just ran produced: the error returned, or the value bound.
Outcome(f) == IF ret.some THEN ret.v ELSE Ok(loc[f].v)
BothSet(a, b) == a.some /\ b.some

\* C1: for every field with a CLI source and an environment source, when
\* both are set the resolved value is the one derived from the CLI value
\* (expanded for paths, parsed for URLs; a set CLI flag is true), never the
\* one from the environment.
C1_CliWins ==
    /\ (After("vault_path") /\ BothSet(inp.cli, inp.env))
          => loc.vault_path = Some(expand_path(inp.cli.v, home))
    /\ (After("vault_fields") /\ BothSet(inp.cli_subdir, inp.env_subdir))
          => loc.vault_subdir = Some(inp.cli_subdir.v)
    /\ (After("vault_fields") /\ inp.cli_copy /\ inp.env_copy.some)
          => loc.copy_pdf_into_vault = Some(TRUE)
    /\ (After("cache") /\ BothSet(inp.cli, inp.env))
          => loc.cache_dir = Some(expand_path(inp.cli.v, home))
    /\ (After("overwrite") /\ inp.cli /\ inp.env.some)
          => loc.overwrite_note = Some(TRUE)
    /\ (After("backend") /\ inp.ollama /\ BothSet(inp.cli_host, inp.env_host))
          => IF UrlParse(inp.cli_host.v).ok
             THEN loc.llm.some /\ loc.llm.v.host = UrlParse(inp.cli_host.v).url
             ELSE ret = Some(Err(UrlError(UrlParse(inp.cli_host.v).cause)))
    /\ (After("backend") /\ inp.ollama /\ loc.llm.some
            /\ BothSet(inp.cli_model, inp.env_ollama_model))
          => loc.llm.v.model = inp.cli_model.v
    /\ (After("backend") /\ ~inp.ollama /\ loc.llm.some
            /\ BothSet(inp.cli_model, inp.env_openai_model))
          => loc.llm.v.model = inp.cli_model.v
    /\ (After("backend") /\ ~inp.ollama /\ BothSet(inp.cli_key, inp.env_key))
          => loc.llm.some /\ loc.llm.v.api_key = inp.cli_key.v
    /\ (After("grobid") /\ BothSet(inp.cli, inp.env))
          => IF UrlParse(inp.cli.v).ok
             THEN loc.grobid_url = Some(Some(UrlParse(inp.cli.v).url))
             ELSE ret = Some(Err(UrlError(UrlParse(inp.cli.v).cause)))

\* Both sources of the extraction URL are set, with different values, and
\* the one from the CLI was stored.
C1_Witness ==
    /\ After("grobid")
    /\ inp.cli = Some(CliGrobid)
    /\ inp.env = Some(EnvGrobid)
    /\ loc.grobid_url.some
    /\ loc.grobid_url.v.v.host = "grobid.local"

\* C2: with no CLI vault path and OBSIDIAN_VAULT_PATH unset, load returns
\* MissingEnv{OBSIDIAN_VAULT_PATH} whatever the filesystem, the home
\* directory and the other inputs are, and it has then run no preflight,
\* backend or URL step: the filesystem is untouched and nothing is bound.
C2_MissingVaultFailsFirst ==
    (After("vault_path") /\ inp.cli = None /\ inp.env = None)
        => /\ ret = Some(Err(MissingEnv("OBSIDIAN_VAULT_PATH")))
           /\ steps = <<"dotenv", "vault_path">>
           /\ fs = fs0
           /\ loc = [f \in Fields |-> None]
           /\ pc = "returned"

\* The vault path is missing on a filesystem whose root is read-only, where
\* the later preflight steps could not have succeeded either.
C2_Witness ==
    /\ After("vault_path")
    /\ inp.cli = None /\ inp.env = None
    /\ ReturnedErr
    /\ <<"/">> \in fs0.ro

AllKeys == Opt({"", "sk-cli", "sk-env"})

\* C3: with the Ollama toggle set, the outcome of backend selection is the
\* same for every CLI key and every OPENAI_API_KEY value and is never
\* MissingEnv{OPENAI_API_KEY}; with the toggle unset and neither key
\* present, load returns MissingEnv{OPENAI_API_KEY}.
C3_KeyOnlyForOpenAi ==
    /\ (After("backend") /\ inp.ollama)
          => /\ \A kc \in AllKeys, ke \in AllKeys :
                  select_backend([inp EXCEPT !.cli_key = kc, !.env_key = ke])
                      = Outcome("llm")
             /\ ret # Some(Err(MissingEnv("OPENAI_API_KEY")))
    /\ (After("backend") /\ ~inp.ollama /\ inp.cli_key = None /\ inp.env_key = None)
          => ret = Some(Err(MissingEnv("OPENAI_API_KEY")))

\* The toggle is set, no key is given anywhere, and a backend was selected.
C3_Witness ==
    /\ After("backend")
    /\ inp.ollama
    /\ inp.cli_key = None /\ inp.env_key = None
    /\ loc.llm.some
    /\ loc.llm.v.variant = "Ollama"

IsPrefix(a, b) == Len(a) <= Len(b) /\ a = SubSeq(b, 1, Len(a))
Ran(s) == \E i \in 1..Len(steps) : steps[i] = s
\* Step s ran and load went on after it.
Passed(s) == Ran(s) /\ ~(ReturnedErr /\ steps[Len(steps)] = s)
\* Load returned an error from step s.
FailedAt(s) == ReturnedErr /\ steps[Len(steps)] = s
ResolvedHost == unwrap_or(or_else(inp.cli_host, inp.env_host), DefaultOllamaHost)
ProbeOpens(f, dir) ==
    \/ ProbePath(dir) \in f.files
    \/ (ProbePath(dir) \notin f.dirs /\ Canon(dir) \in f.dirs /\ Canon(dir) \notin f.ro)

\* C4: load runs its steps in the fixed order and returns the error of the
\* first step that fails: vault path missing (MissingEnv), vault directory
\* creation (Io), vault writability (VaultNotWritable), cache directory
\* creation (Io), backend selection, extraction URL (Url).  Every step
\* before the failing one succeeded, none after it ran, and no Config is
\* returned; a Config is returned only after every step ran.
C4_FirstFailingStepWins ==
    /\ IsPrefix(steps, StepOrder)
    /\ ReturnedOk => steps = StepOrder
    /\ Returned => pc = "returned"
    /\ Passed("vault_path") => loc.vault_path.some
    /\ Passed("vault_dir")
          => (Len(loc.vault_path.v) = 0 \/ path_exists(fs, loc.vault_path.v))
    /\ Passed("vault_writable")
          => /\ Canon(loc.vault_path.v) \in fs.dirs
             /\ (Canon(loc.vault_path.v) \in fs.ro
                    => ProbePath(loc.vault_path.v) \in fs.files)
    /\ Passed("cache") => path_exists(fs, loc.cache_dir.v)
    /\ Passed("backend") => loc.llm.some
    /\ Passed("grobid") => loc.grobid_url.some
    /\ FailedAt("vault_path")
          => ret.v.err = MissingEnv("OBSIDIAN_VAULT_PATH") /\ ~or_else(inp.cli, inp.env).some
    /\ FailedAt("vault_dir")
          => ret.v.err = IoError(loc.vault_path.v) /\ ~path_exists(fs, loc.vault_path.v)
    /\ FailedAt("vault_writable")
          => /\ ret.v.err = VaultNotWritable(loc.vault_path.v)
             /\ (~inp.writeOk \/ ~ProbeOpens(inp.before, loc.vault_path.v))
    /\ FailedAt("cache")
          => ret.v.err = IoError(loc.cache_dir.v) /\ ~path_exists(fs, loc.cache_dir.v)
    /\ FailedAt("backend")
          => \/ /\ ret.v.err = MissingEnv("OPENAI_API_KEY")
                /\ ~inp.ollama /\ ~or_else(inp.cli_key, inp.env_key).some
             \/ /\ ret.v.err.kind = "Url"
                /\ inp.ollama /\ ~UrlParse(ResolvedHost).ok
    /\ FailedAt("grobid")
          => /\ ret.v.err.kind = "Url"
             /\ or_else(inp.cli, inp.env).some
             /\ ~UrlParse(or_else(inp.cli, inp.env).v).ok
    /\ ReturnedErr
          => /\ steps[Len(steps)] \in {"vault_path", "vault_dir", "vault_writable",
                                       "cache", "backend", "grobid"}
             /\ ~Ran("vault_fields") => ~loc.vault_subdir.some
             /\ ~Ran("cache") => ~loc.cache_dir.some
             /\ ~Ran("backend") => ~loc.llm.some
             /\ ~Ran("grobid") => ~loc.grobid_url.some
             /\ ~loc.mode.some

\* The root is read-only, so creating the vault directory fails and
\* creating the cache directory would fail too: load returned the vault's Io.
C4_Witness ==
    /\ FailedAt("vault_dir")
    /\ <<"/">> \in fs0.ro
    /\ ret.v.err = IoError(Nested(2))
    /\ ~create_dir_all(fs, AbsCache).ok

WritableDir(f, p) == Canon(p) \in f.dirs /\ Canon(p) \notin f.ro

\* C5: every Config returned has one backend variant with its required
\* fields, and an OpenAi variant has a non-empty api_key whatever the key
\* inputs were; the variant is the one the Ollama toggle names.
C5_BackendPopulated ==
    /\ (After("backend") /\ loc.llm.some)
          => loc.llm.v.variant = (IF inp.ollama THEN "Ollama" ELSE "OpenAi")
    /\ ReturnedOk
          => /\ ret.v.v.llm.variant \in {"Ollama", "OpenAi"}
             /\ ret.v.v.llm.variant = "OpenAi" => ret.v.v.llm.api_key # ""

\* C6: every Config returned has an absolute, existing vault_path and
\* cache_dir, and a writable vault_path, whatever raw paths were given.
C6_PathsAbsoluteExisting ==
    ReturnedOk
        => /\ is_absolute(ret.v.v.vault_path)
           /\ is_absolute(ret.v.v.cache_dir)
           /\ path_exists(fs, ret.v.v.vault_path)
           /\ path_exists(fs, ret.v.v.cache_dir)
           /\ WritableDir(fs, ret.v.v.vault_path)

\* C7: the extraction URL string is the CLI value, else GROBID_URL.  Present
\* and malformed: load returns the URL-parse error.  Absent: load goes on
\* and grobid_url is None.  Present and well-formed: grobid_url is the
\* parsed URL.
C7_GrobidUrl ==
    After("grobid")
        => LET raw == IF inp.cli.some THEN inp.cli ELSE inp.env IN
           /\ ~raw.some => (ret = None /\ loc.grobid_url = Some(None))
           /\ (raw.some /\ raw.v \in {NotAUrl, <<>>, NoHostUrl})
                 => (ReturnedErr /\ ret.v.err.kind = "Url" /\ ~loc.grobid_url.some)
           /\ raw = Some(CliGrobid)
                 => (ret = None /\ loc.grobid_url = Some(Some(
                        [scheme |-> "https", host |-> "grobid.local",
                         port |-> ":8070", path |-> "/"])))
           /\ raw = Some(EnvGrobid)
                 => (ret = None /\ loc.grobid_url = Some(Some(
                        [scheme |-> "http", host |-> "grobid.lan",
                         port |-> ":8070", path |-> "/"])))

\* GROBID_URL is "not a url", no CLI value: load returned the parse error.
C7_Witness ==
    /\ After("grobid")
    /\ inp.cli = None
    /\ inp.env = Some(NotAUrl)
    /\ ReturnedErr
    /\ ret.v.err.kind = "Url"

\* The sample strings that no unsigned parse accepts, and those f32 rejects.
BadU32 == { <<>>, <<"a", "b", "c">>, <<"-", "1">>, <<" ", "7">>, <<"1", "e", "3">>, <<"+">>,
            <<"4", "2", "9", "4", "9", "6", "7", "2", "9", "6">> }
BadU64 == { <<>>, <<"2", "0", "s">>, <<"-", "1">>, <<"4", ".", "5">>,
            <<"1", "8", "4", "4", "6", "7", "4", "4", "0", "7",
              "3", "7", "0", "9", "5", "5", "1", "6", "1", "6">> }
BadF32 == { <<>>, <<"h", "o", "t">>, <<"0", ",", "7">>, <<".">>,
            <<"1", ".", "2", ".", "3">> }
Defaulted(env, bad) == ~env.some \/ env.v \in bad

\* C8: the mode string and the five numeric variables never abort load:
\* backend selection succeeds or fails, with the same error, as it does
\* with MABEL_MAX_TOKENS and MABEL_TEMPERATURE absent, and the timeout,
\* retries, rate and rendering steps never fail.  An absent or unparsable
\* number resolves to its default (800, 0.2, 20, 2, 30), a parsable one to
\* its value, and every mode string other than "study" to Concise.
C8_OptionalValuesNeverAbort ==
    /\ After("backend")
          => LET absent == select_backend([inp EXCEPT !.env_max_tokens = None,
                                                      !.env_temperature = None])
             IN  /\ Outcome("llm").ok = absent.ok
                 /\ ~absent.ok => ret = Some(absent)
                 /\ (loc.llm.some /\ Defaulted(inp.env_max_tokens, BadU32))
                       => loc.llm.v.max_tokens = 800
                 /\ (loc.llm.some /\ Defaulted(inp.env_temperature, BadF32))
                       => loc.llm.v.temperature = [neg |-> FALSE, mant |-> 2, scale |-> 1]
                 /\ (loc.llm.some /\ inp.env_max_tokens = Some(<<"0", "0", "7">>))
                       => loc.llm.v.max_tokens = 7
                 /\ (loc.llm.some /\ inp.env_temperature = Some(<<"0", ".", "7", "0">>))
                       => loc.llm.v.temperature = [neg |-> FALSE, mant |-> 7, scale |-> 1]
    /\ After("timeout")
          => /\ ret = None /\ loc.http_timeout.some
             /\ Defaulted(inp.env, BadU64) => loc.http_timeout.v = 20
             /\ inp.env = Some(<<"4", "5">>) => loc.http_timeout.v = 45
    /\ After("retries")
          => /\ ret = None /\ loc.http_retries.some
             /\ Defaulted(inp.env, BadU32) => loc.http_retries.v = 2
             /\ inp.env = Some(<<"+", "5">>) => loc.http_retries.v = 5
    /\ After("rate")
          => /\ ret = None /\ loc.rate_limit_per_min.some
             /\ Defaulted(inp.env, BadU32) => loc.rate_limit_per_min.v = 30
             /\ inp.env = Some(<<"1", "0", "0">>) => loc.rate_limit_per_min.v = 100
    /\ After("rendering")
          => /\ ret = None
             /\ loc.mode = Some(IF inp.cli_mode = Some("study") THEN "Study" ELSE "Concise")

\* MABEL_HTTP_RETRIES is "-1", which no u32 parse accepts: load went on with 2.
C8_Witness ==
    /\ After("retries")
    /\ inp.env = Some(<<"-", "1">>)
    /\ ret = None
    /\ loc.http_retries = Some(2)
    /\ loc.http_timeout = Some(45)

\* C9 as stated: the only error backend selection returns is MissingEnv,
\* also for a malformed Ollama host.
C9_OnlyMissingEnv ==
    FailedAt("backend") => ret.v.err.kind = "MissingEnv"

\* C9 as amended: backend selection returns an LlmBackend, or
\* MissingEnv{OPENAI_API_KEY} (toggle unset, no key), or the URL-parse error
\* of the Ollama host (toggle set, host malformed), and nothing else.
C9_MissingEnvOrUrl ==
    After("backend")
        => LET badHost == ResolvedHost \in {NotAUrl, NoHostUrl, <<>>}
               noKey == inp.cli_key = None /\ inp.env_key = None
           IN  /\ (inp.ollama /\ badHost)
                     => (ReturnedErr /\ ret.v.err.kind = "Url" /\ ~loc.llm.some)
               /\ (~inp.ollama /\ noKey)
                     => ret = Some(Err(MissingEnv("OPENAI_API_KEY")))
               /\ ((inp.ollama /\ ~badHost) \/ (~inp.ollama /\ ~noKey))
                     => (ret = None /\ loc.llm.some)

\* The toggle is set and OLLAMA_HOST has no host: load returned the URL error.
C9_Witness ==
    /\ After("backend")
    /\ inp.ollama
    /\ inp.cli_host = None
    /\ inp.env_host = Some(NoHostUrl)
    /\ ReturnedErr
    /\ ret.v.err = UrlError("EmptyHost")

RemovalDenied(f, dir) == Canon(dir) \in (f.ro \cup f.ao)
OnlyProbeTouched(before, after, dir) ==
    /\ after.dirs = before.dirs
    /\ after.files \ {ProbePath(dir)} = before.files \ {ProbePath(dir)}
    /\ after.ro = before.ro /\ after.ao = before.ao

\* C10 as stated: the preflight touches the one probe file, and whenever it
\* reports success the probe file is gone, also where removal is denied.
C10_ProbeNeverLeft ==
    After("vault_writable")
        => /\ OnlyProbeTouched(inp.before, fs, loc.vault_path.v)
           /\ ret = None => ProbePath(loc.vault_path.v) \notin fs.files

\* C10 as amended: the preflight opens the one probe file, creating it when
\* it was absent, and touches nothing else; when it reports success and the
\* directory permits removal the probe file is gone afterwards; when removal
\* is denied it still reports success and the probe file is left behind.
C10_ProbeRemovedWhenPermitted ==
    After("vault_writable")
        => LET dir == loc.vault_path.v
               probe == ProbePath(dir)
           IN  /\ OnlyProbeTouched(inp.before, fs, dir)
               /\ inp.created <=> (ProbeOpens(inp.before, dir) /\ probe \notin inp.before.files)
               /\ ret = None <=> (inp.writeOk /\ ProbeOpens(inp.before, dir))
               /\ (ret = None /\ ~RemovalDenied(inp.before, dir)) => probe \notin fs.files
               /\ (ret = None /\ RemovalDenied(inp.before, dir)) => probe \in fs.files

\* The vault directory is append-only: the probe was created, the preflight
\* reported success and the probe file is still there.
C10_Witness ==
    /\ After("vault_writable")
    /\ ret = None
    /\ inp.created
    /\ Canon(loc.vault_path.v) \in fs.ao
    /\ ProbePath(loc.vault_path.v) \in fs.files

====
